---- MODULE Spec2Model ----
(***************************************************************************)
(* Collateral position auction: the single-auction engine                  *)
(* (CollateralPositionAuction, src/auction_utils.py) and the Monte Carlo   *)
(* driver (MonteCarloAuction, src/auction_utils.py and                     *)
(* src/auction_functions.py).                                              *)
(*                                                                         *)
(* Real numbers are modelled as integers.  Probabilities are counted in    *)
(* units of 1e-9 (Nano), audit rates in tenths.                            *)
(***************************************************************************)
EXTENDS Integers, Sequences, FiniteSets, TLC

\* ------------------------------------------------------------------------
\* Bounds of the model
\* ------------------------------------------------------------------------
MaxSenders == 2
MaxRuns == 2
MaxMutations == 1
MaxSims == 2

\* ------------------------------------------------------------------------
\* Input domains
\* ------------------------------------------------------------------------
\* the sender values of a population of n: all equal, or all different
ValueProfiles(n) == {[i \in 1..n |-> 10], [i \in 1..n |-> 10 * i]}
RecipientValues == {5}
EffectValues == {2}
AllocValues == {1, 2}
PayValues == {3}
AuditRates == {0, 1}

\* 1.0 as a probability, in units of 1e-9
One == 1000 * 1000 * 1000

\* sender_type_distribution arguments: the probabilities, in units of 1e-9
Dist_0_9 == <<400000000, 500000000>>
Dist_1 == <<500000000, 500000000>>
Dist_1_plus_1e9 == <<500000000, 500000001>>
Dist_1_plus_1e6 == <<500000000, 500001000>>
Dist_1_plus_2e5 == <<500000000, 500020000>>
DistChoices == {Dist_0_9, Dist_1, Dist_1_plus_1e9, Dist_1_plus_1e6, Dist_1_plus_2e5}

\* seed arguments; NoSeed is seed=None
NoSeed == 0 - 1
Seeds == {NoSeed, 3, 5}

\* num_simulations arguments
SimCounts == (0 - 1)..MaxSims

\* names of the variables that hold MonteCarloAuction instances
Instances == {"A", "B"}

\* A SenderMessage object that is not a member of the population; dictionaries
\* are keyed by the SenderMessage objects, population members are identified
\* by their position 1..n in sender_message_types.
Stranger == 0

\* Stamp of a derived attribute that a caller assigned, not a run.
CallerStamp == 0 - 1

VARIABLES
    \* CollateralPositionAuction: constructor arguments
    allocate_position_func,
    calculate_payments_func,
    set_collateral_audit_func,
    sender_reports_func,
    position_effects,
    sender_message_types,
    \* CollateralPositionAuction: derived state
    expected_liability_oracle,
    sender_reports,
    sender_allocations,
    sender_payments,
    expected_sender_utilities,
    \* position inside run_auction: number of statements of the body done
    pc,
    \* number of run_auction invocations so far
    run_no,
    \* policy functions invoked by the current (or last) run, in order
    calls,
    \* for every derived attribute, the run that assigned it (0: __init__)
    stamp,
    \* derived state as the first completed run left it
    first_run,
    \* number of assignments a caller made to the public derived attributes
    mutations,
    \* state of the process-wide numpy random stream (np.random)
    np_random,
    \* the auction_parameters dictionary handed to the MonteCarloAuction
    \* constructors
    auction_parameters,
    \* the MonteCarloAuction instances, by the name of the variable holding
    \* them; each entry also records the last construction attempt
    mc,
    \* the last call of a population sampler and its outcome
    sampled

auctionVars == <<allocate_position_func, calculate_payments_func,
                 set_collateral_audit_func, sender_reports_func,
                 position_effects, sender_message_types,
                 expected_liability_oracle, sender_reports, sender_allocations,
                 sender_payments, expected_sender_utilities,
                 pc, run_no, calls, stamp, first_run, mutations>>

mcVars == <<np_random, auction_parameters, mc, sampled>>

vars == <<auctionVars, mcVars>>

\* ------------------------------------------------------------------------
\* Dictionaries
\* ------------------------------------------------------------------------
EmptyDict == [k \in {} |-> 0]

PartialMaps(K, V) == UNION {[D -> V] : D \in SUBSET K}

\* dict.get that answers 1 for a missing key
DictGet_default_one(d, k, default) == IF k \in DOMAIN d THEN d[k] ELSE 1

\* dict.get(key, default)
DictGet(d, k, default) == IF k \in DOMAIN d THEN d[k] ELSE default

\* d[k] = v
DictSet(d, k, v) == [x \in (DOMAIN d) \cup {k} |-> IF x = k THEN v ELSE d[x]]

\* ------------------------------------------------------------------------
\* SenderMessage and populations
\* ------------------------------------------------------------------------
SenderMessage(id, sv, rv) ==
    [message_id |-> id, sender_value |-> sv, recipient_value |-> rv]

Population == 1..Len(sender_message_types)

\* ------------------------------------------------------------------------
\* The auction object as a policy function sees it
\* ------------------------------------------------------------------------
Self ==
    [sender_message_types |-> sender_message_types,
     position_effects |-> position_effects,
     expected_liability_oracle |-> expected_liability_oracle,
     sender_reports |-> sender_reports,
     sender_allocations |-> sender_allocations,
     sender_payments |-> sender_payments,
     expected_sender_utilities |-> expected_sender_utilities]

Senders(self) == 1..Len(self.sender_message_types)

\* ------------------------------------------------------------------------
\* Policy functions (constructor inputs)
\* ------------------------------------------------------------------------
\* Audit factory.  "rate": calculate_audit of auction_functions.py,
\* sender_value * audit_rate with the rate in tenths.  "reads_payments": a
\* factory that is a function of the auction instance and reads
\* auction.sender_payments when it is called.
AuditPolicies ==
    {[kind |-> "rate", rate |-> r] : r \in AuditRates}
        \cup {[kind |-> "reads_payments", rate |-> 0]}

\* A custom audit factory that divides by sender_value - 10: the liability
\* is 60 / (sender_value - 10), and the factory raises ZeroDivisionError for
\* a population with a sender of value 10.
DividingAudit == [kind |-> "divides", rate |-> 10]

\* the call of the audit factory raises
AuditRaises(policy, self) ==
    /\ policy.kind = "divides"
    /\ \E s \in Senders(self) :
          self.sender_message_types[s].sender_value = policy.rate

ApplyAudit(policy, self) ==
    [s \in Senders(self) |->
        IF policy.kind = "rate"
        THEN (self.sender_message_types[s].sender_value * policy.rate) \div 10
        ELSE IF policy.kind = "divides"
        THEN IF self.sender_message_types[s].sender_value > policy.rate
             THEN 60 \div (self.sender_message_types[s].sender_value - policy.rate)
             ELSE 0
        ELSE DictGet(self.sender_payments, s, 0)]

\* Reporting function: every sender reports its value (get_reports of
\* auction_functions.py without the reporting noise).
ReportPolicies == {[kind |-> "truthful"]}

ApplyReports(policy, self) ==
    [s \in Senders(self) |-> self.sender_message_types[s].sender_value]

\* Allocation function.  "table": returns a fixed mapping, which may lack
\* senders and may hold the Stranger.  "call_count": an impure function that
\* allocates to every sender the number of times it has been called.
AllocPolicies(P, extra) ==
    {[kind |-> "table", table |-> t] :
        t \in {m \in PartialMaps(P \cup {Stranger}, AllocValues) :
                  (Stranger \in DOMAIN m) = extra}}
        \cup {[kind |-> "call_count", table |-> EmptyDict]}

ApplyAllocation(policy, self, ncalls) ==
    IF policy.kind = "table"
    THEN policy.table
    ELSE [s \in Senders(self) |-> ncalls]

\* Payment function.  "table": a fixed mapping.  "per_allocation": a function
\* that reads auction.sender_allocations, 3 per allocated unit.
PayPolicies(P, extra) ==
    {[kind |-> "table", table |-> t] :
        t \in {m \in PartialMaps(P \cup {Stranger}, PayValues) :
                  (Stranger \in DOMAIN m) = extra}}
        \cup {[kind |-> "per_allocation", table |-> EmptyDict]}

ApplyPayments(policy, self) ==
    IF policy.kind = "table"
    THEN policy.table
    ELSE [s \in Senders(self) |-> 3 * DictGet(self.sender_allocations, s, 0)]

\* ------------------------------------------------------------------------
\* CollateralPositionAuction
\* ------------------------------------------------------------------------
\* the utility with the allocation clamped to 0..1
SenderUtility_clamped(self, s) ==
    (IF DictGet(self.sender_allocations, s, 0) > 1
     THEN 1
     ELSE DictGet(self.sender_allocations, s, 0))
        * DictGet(self.position_effects,
                  self.sender_message_types[s].message_id, 0)
        * self.sender_message_types[s].sender_value
    - DictGet(self.sender_payments, s, 0)
    - self.expected_liability_oracle[s]

\* _calculate_expected_sender_utilities: the utility of one sender
SenderUtility(self, s) ==
    DictGet(self.sender_allocations, s, 0)
        * DictGet(self.position_effects,
                  self.sender_message_types[s].message_id, 0)
        * self.sender_message_types[s].sender_value
    - DictGet(self.sender_payments, s, 0)
    - self.expected_liability_oracle[s]

\* the senders _calculate_expected_sender_utilities iterates over
UtilityKeys(self) == Senders(self)

\* the utilities with an additional entry that holds their number
calculate_expected_sender_utilities_total(self) ==
    [s \in UtilityKeys(self) \cup {Stranger} |->
        IF s = Stranger THEN Cardinality(UtilityKeys(self)) ELSE SenderUtility(self, s)]

\* the utilities added to the entries already stored
calculate_expected_sender_utilities_added(self) ==
    [s \in UtilityKeys(self) |->
        DictGet(self.expected_sender_utilities, s, 0) + SenderUtility(self, s)]

\* the utilities with an entry for every key the allocation or the payment
\* function returned
calculate_expected_sender_utilities_returned_keys(self) ==
    [s \in UtilityKeys(self) \cup (DOMAIN self.sender_allocations)
                             \cup (DOMAIN self.sender_payments) |->
        IF s \in UtilityKeys(self)
        THEN SenderUtility(self, s)
        ELSE 0 - DictGet(self.sender_payments, s, 0)]

calculate_expected_sender_utilities(self) ==
    [s \in UtilityKeys(self) |-> SenderUtility(self, s)]

\* the property sender_expected_utilities
sender_expected_utilities == expected_sender_utilities

\* run_auction with the allocation computed before the reports
RunAuctionOrder_alloc_first == <<"audit", "alloc", "reports", "pay", "utilities">>

\* the statements of run_auction, in order
RunAuctionOrder == <<"audit", "reports", "alloc", "pay", "utilities">>

Stage == RunAuctionOrder[pc + 1]

Derived ==
    [expected_liability_oracle |-> expected_liability_oracle,
     sender_reports |-> sender_reports,
     sender_allocations |-> sender_allocations,
     sender_payments |-> sender_payments,
     expected_sender_utilities |-> expected_sender_utilities]

\* __init__
AuctionInit ==
    /\ \E n \in 0..MaxSenders, extra \in BOOLEAN :
        /\ \E sv \in ValueProfiles(n), rv \in RecipientValues :
              sender_message_types = [i \in 1..n |-> SenderMessage(i, sv[i], rv)]
        /\ position_effects \in PartialMaps(1..n, EffectValues)
        /\ allocate_position_func \in AllocPolicies(1..n, extra)
        /\ calculate_payments_func \in PayPolicies(1..n, extra)
        /\ expected_liability_oracle = [s \in 1..n |-> 0]
    /\ set_collateral_audit_func \in AuditPolicies
    /\ sender_reports_func \in ReportPolicies
    /\ sender_reports = EmptyDict
    /\ sender_allocations = EmptyDict
    /\ sender_payments = EmptyDict
    /\ expected_sender_utilities = EmptyDict
    /\ pc = 0
    /\ run_no = 0
    /\ calls = <<>>
    /\ stamp = [oracle |-> 0, reports |-> 0, allocations |-> 0,
                payments |-> 0, utilities |-> 0]
    /\ first_run = [done |-> FALSE,
                    derived |-> [expected_liability_oracle |-> expected_liability_oracle,
                                 sender_reports |-> EmptyDict,
                                 sender_allocations |-> EmptyDict,
                                 sender_payments |-> EmptyDict,
                                 expected_sender_utilities |-> EmptyDict]]
    /\ mutations = 0

\* bookkeeping common to the statements of run_auction
Advance(attr) ==
    /\ pc' = (pc + 1) % Len(RunAuctionOrder)
    /\ IF pc = 0
       THEN /\ run_no < MaxRuns
            /\ run_no' = run_no + 1
            /\ calls' = IF Stage = "utilities" THEN <<>> ELSE <<Stage>>
       ELSE /\ run_no' = run_no
            /\ calls' = IF Stage = "utilities" THEN calls ELSE Append(calls, Stage)
    /\ stamp' = [stamp EXCEPT ![attr] = run_no']
    /\ UNCHANGED <<allocate_position_func, calculate_payments_func,
                   set_collateral_audit_func, sender_reports_func,
                   position_effects, sender_message_types, mutations, mcVars>>

Completes == pc = Len(RunAuctionOrder) - 1

Remember(derived) ==
    first_run' = IF Completes /\ ~first_run.done
                 THEN [done |-> TRUE, derived |-> derived]
                 ELSE first_run

\* self.expected_liability_oracle = self.set_collateral_audit_func(self)
CallAudit ==
    /\ Stage = "audit"
    /\ Advance("oracle")
    /\ expected_liability_oracle' = ApplyAudit(set_collateral_audit_func, Self)
    /\ Remember([Derived EXCEPT !.expected_liability_oracle = expected_liability_oracle'])
    /\ UNCHANGED <<sender_reports, sender_allocations, sender_payments,
                   expected_sender_utilities>>

\* self.sender_reports = self.sender_reports_func(self)
CallReports ==
    /\ Stage = "reports"
    /\ Advance("reports")
    /\ sender_reports' = ApplyReports(sender_reports_func, Self)
    /\ Remember([Derived EXCEPT !.sender_reports = sender_reports'])
    /\ UNCHANGED <<expected_liability_oracle, sender_allocations, sender_payments,
                   expected_sender_utilities>>

\* self.sender_allocations = self.allocate_position_func(self)
CallAllocate ==
    /\ Stage = "alloc"
    /\ Advance("allocations")
    /\ sender_allocations' = ApplyAllocation(allocate_position_func, Self, run_no')
    /\ Remember([Derived EXCEPT !.sender_allocations = sender_allocations'])
    /\ UNCHANGED <<expected_liability_oracle, sender_reports, sender_payments,
                   expected_sender_utilities>>

\* self.sender_payments = self.calculate_payments_func(self)
CallPayments ==
    /\ Stage = "pay"
    /\ Advance("payments")
    /\ sender_payments' = ApplyPayments(calculate_payments_func, Self)
    /\ Remember([Derived EXCEPT !.sender_payments = sender_payments'])
    /\ UNCHANGED <<expected_liability_oracle, sender_reports, sender_allocations,
                   expected_sender_utilities>>

\* self.expected_sender_utilities = self._calculate_expected_sender_utilities()
CalcUtilities ==
    /\ Stage = "utilities"
    /\ Advance("utilities")
    /\ expected_sender_utilities' = calculate_expected_sender_utilities(Self)
    /\ Remember([Derived EXCEPT !.expected_sender_utilities = expected_sender_utilities'])
    /\ UNCHANGED <<expected_liability_oracle, sender_reports, sender_allocations,
                   sender_payments>>

\* a caller waives a payment between two runs: auction.sender_payments[s] = 0
SetPayment ==
    /\ pc = 0
    /\ run_no >= 1
    /\ mutations < MaxMutations
    /\ \E s \in Population :
        /\ DictGet(sender_payments, s, 0 - 1) # 0
        /\ sender_payments' = DictSet(sender_payments, s, 0)
    /\ mutations' = mutations + 1
    /\ stamp' = [stamp EXCEPT !.payments = CallerStamp]
    /\ UNCHANGED <<allocate_position_func, calculate_payments_func,
                   set_collateral_audit_func, sender_reports_func,
                   position_effects, sender_message_types,
                   expected_liability_oracle, sender_reports, sender_allocations,
                   expected_sender_utilities, pc, run_no, calls, first_run, mcVars>>

\* ------------------------------------------------------------------------
\* The numpy random stream
\* ------------------------------------------------------------------------
\* one step of the generator
NextRandom(x) == ((5 * x) + 3) % 16

\* np.random.seed(seed)
SeedRandom(seed) == seed % 16

RECURSIVE AfterDraws(_, _)
\* the state of the stream after k draws
AfterDraws(x, k) == IF k = 0 THEN x ELSE AfterDraws(NextRandom(x), k - 1)

\* the k-th value drawn from the stream in state x
DrawValue(x, k) == 10 * (1 + (AfterDraws(x, k) \div 4))

\* ------------------------------------------------------------------------
\* Policy functions and auctions of the Monte Carlo driver
\* ------------------------------------------------------------------------
\* _create_allocation_function: 1 for every sender
CreateAllocationFunction(n) ==
    [kind |-> "table", table |-> [s \in 1..n |-> 1]]

\* _create_payments_function: base_payment for every sender
CreatePaymentsFunction(n, params) ==
    [kind |-> "table", table |-> [s \in 1..n |-> params.base_payment]]

\* _create_collateral_audit_function: sender_value * audit_rate
CreateCollateralAuditFunction(params) ==
    [kind |-> "rate", rate |-> params.audit_rate]

\* CollateralPositionAuction.__init__: the derived state of a new auction
NewAuction(population, effects) ==
    [sender_message_types |-> population,
     position_effects |-> effects,
     expected_liability_oracle |-> [s \in 1..Len(population) |-> 0],
     sender_reports |-> EmptyDict,
     sender_allocations |-> EmptyDict,
     sender_payments |-> EmptyDict,
     expected_sender_utilities |-> EmptyDict]

\* run_auction from entry to return, on the auction object a0
RunAuctionOn(a0, audit, reports, alloc, pay) ==
    LET a1 == [a0 EXCEPT !.expected_liability_oracle = ApplyAudit(audit, a0)]
        a2 == [a1 EXCEPT !.sender_reports = ApplyReports(reports, a1)]
        a3 == [a2 EXCEPT !.sender_allocations = ApplyAllocation(alloc, a2, 1)]
        a4 == [a3 EXCEPT !.sender_payments = ApplyPayments(pay, a3)]
    IN  [a4 EXCEPT !.expected_sender_utilities =
                        calculate_expected_sender_utilities(a4)]

\* run_auction with a handler that swallows the error of a policy function
RunAuctionRaises_caught(a0, audit) == FALSE

\* run_auction on the auction object a0 ends with the error of a policy
\* function: the calls are made outside any try statement
RunAuctionRaises(a0, audit) == AuditRaises(audit, a0)

\* the audit factory of the auction that the driver simulates: the one the
\* configuration names, else the one made from audit_rate
TrialAudit(params) ==
    IF params.custom_audit = "divides"
    THEN DividingAudit
    ELSE CreateCollateralAuditFunction(params)

RECURSIVE SumSeq(_)
SumSeq(q) == IF q = <<>> THEN 0 ELSE Head(q) + SumSeq(Tail(q))

\* the sampler: num_messages sender values, then num_messages recipient
\* values, drawn from the stream in state x; ids 1..num_messages
Sample(num_messages, x) ==
    [i \in 1..num_messages |->
        SenderMessage(i, DrawValue(x, i), DrawValue(x, num_messages + i))]

DrawsPerTrial(params) == 2 * params.num_senders

\* one trial: sample a population, build an auction over it, run it, and
\* reduce the utilities to their sum
TrialResult(x, params) ==
    LET n == params.num_senders
        a == RunAuctionOn(NewAuction(Sample(n, x), params.position_effects),
                          TrialAudit(params),
                          [kind |-> "truthful"],
                          CreateAllocationFunction(n),
                          CreatePaymentsFunction(n, params))
    IN  SumSeq(a.expected_sender_utilities)

\* the run of the auction of the trial that starts with the stream in state
\* x ends with the error of a policy function
TrialRaises(x, params) ==
    RunAuctionRaises(NewAuction(Sample(params.num_senders, x), params.position_effects),
                     TrialAudit(params))

RECURSIVE FirstFailure(_, _, _, _)
\* the first of the trials t..n of a run started with the stream in state x
\* that ends with an error, 0 when none does
FirstFailure(x, t, n, params) ==
    IF t > n
    THEN 0
    ELSE IF TrialRaises(AfterDraws(x, (t - 1) * DrawsPerTrial(params)), params)
         THEN t
         ELSE FirstFailure(x, t + 1, n, params)

\* ------------------------------------------------------------------------
\* The population samplers of the source
\* ------------------------------------------------------------------------
\* the functions that sample a population
Samplers == {"sample_one_message_set", "generate_sender_messages"}

\* the num_messages arguments
MessageCounts == 0..MaxSenders

\* the parameters of SenderMessage.__init__
SenderMessageParameters == {"message_id", "sender_value", "recipient_value"}

\* the keywords the samplers pass to SenderMessage
SamplerKeywords == {"id", "sender_value", "recipient_value"}

\* a call of SenderMessage with these keywords binds its parameters
SenderMessageAccepts(keywords) == keywords = SenderMessageParameters

NoSample ==
    [fn |-> "none", num_messages |-> 0, status |-> "none", messages |-> <<>>]

\* the outcome of sample_one_message_set / generate_sender_messages called
\* with the stream in state x: ids arange(1, num_messages + 1), num_messages
\* sender values and then num_messages recipient values drawn, one
\* SenderMessage(id=..., sender_value=..., recipient_value=...) built per
\* element; generate_sender_messages ends without a return statement
SamplerOutcome(fn, num_messages, x) ==
    IF num_messages >= 1 /\ ~SenderMessageAccepts(SamplerKeywords)
    THEN [fn |-> fn, num_messages |-> num_messages, status |-> "TypeError",
          messages |-> <<>>]
    ELSE [fn |-> fn, num_messages |-> num_messages,
          status |-> IF fn = "generate_sender_messages"
                     THEN "returned None"
                     ELSE "returned list",
          messages |-> IF fn = "generate_sender_messages"
                       THEN <<>>
                       ELSE [i \in 1..num_messages |->
                               SenderMessage(i, DrawValue(x, i),
                                             DrawValue(x, num_messages + i))]]

\* a call of one of the samplers
CallSampler(fn, num_messages) ==
    /\ sampled' = SamplerOutcome(fn, num_messages, np_random)
    /\ np_random' = AfterDraws(np_random, 2 * num_messages)
    /\ UNCHANGED <<auction_parameters, mc, auctionVars>>

\* ------------------------------------------------------------------------
\* MonteCarloAuction
\* ------------------------------------------------------------------------
Abs(x) == IF x < 0 THEN 0 - x ELSE x

\* np.isclose(a, b) with numpy's rtol=1e-05 and atol=1e-08, in units of 1e-9
isclose(a, b) == Abs(a - b) <= 10 + (Abs(b) \div 100000)

\* the checks of MonteCarloAuction.__init__ (auction_utils.py)
ValidNumSimulations(num_simulations) == ~(num_simulations < 1)

ValidDistribution(dist) == isclose(SumSeq(dist), One)

NoInstance ==
    [cls |-> "none", status |-> "absent", num_simulations |-> 0,
     sender_type_distribution |-> <<>>, seed |-> NoSeed,
     results |-> <<>>, senders |-> <<>>, last_op |-> "none", runs |-> 0,
     populations |-> <<>>, statistics |-> <<>>, recorded |-> <<>>,
     trials_done |-> 0]

Exists(i) == mc[i].status = "ok"

\* MonteCarloAuction.__init__ of auction_utils.py
MCInit(i, num_simulations, dist, seed) ==
    LET attempt == [NoInstance EXCEPT !.cls = "utils",
                                      !.num_simulations = num_simulations,
                                      !.sender_type_distribution = dist,
                                      !.seed = seed]
    IN  IF ~ValidNumSimulations(num_simulations) \/ ~ValidDistribution(dist)
        THEN /\ mc' = [mc EXCEPT ![i] = [attempt EXCEPT !.status = "ValueError"]]
             /\ UNCHANGED <<np_random, auction_parameters, sampled, auctionVars>>
        ELSE /\ mc' = [mc EXCEPT ![i] = [attempt EXCEPT !.status = "ok",
                                                        !.last_op = "init"]]
             /\ np_random' = IF seed # NoSeed THEN SeedRandom(seed) ELSE np_random
             /\ UNCHANGED <<auction_parameters, sampled, auctionVars>>

\* _create_initial_senders of auction_functions.py: ids range(num_senders),
\* sender_value and recipient_value drawn in turn for each sender
CreateInitialSenders(params, x) ==
    [i \in 1..params.num_senders |->
        SenderMessage(i - 1, DrawValue(x, (2 * i) - 1), DrawValue(x, 2 * i))]

\* MonteCarloAuction.__init__ of auction_functions.py
FnMCInit(i, num_simulations, dist, seed) ==
    /\ mc' = [mc EXCEPT ![i] =
                [NoInstance EXCEPT !.cls = "functions",
                                   !.status = "ok",
                                   !.num_simulations = num_simulations,
                                   !.sender_type_distribution = dist,
                                   !.seed = seed,
                                   !.senders = CreateInitialSenders(auction_parameters, np_random),
                                   !.last_op = "init"]]
    /\ np_random' = AfterDraws(np_random, 2 * auction_parameters.num_senders)
    /\ UNCHANGED <<auction_parameters, sampled, auctionVars>>

\* sample_senders_and_run: generate_sender_message_set is not defined, the
\* call raises NameError before a population is sampled, a trial is run or
\* _results is assigned
SampleSendersAndRun(i) ==
    /\ Exists(i)
    /\ mc[i].cls = "utils"
    /\ mc[i].last_op # "NameError"
    /\ mc' = [mc EXCEPT ![i].last_op = "NameError",
                        ![i].populations = <<>>]
    /\ UNCHANGED <<np_random, auction_parameters, sampled, auctionVars>>

\* run_simulation; runs counts the runs since construction or reset, 2
\* standing for two or more; populations are the populations the trials of
\* the last run sampled and trials_done the number of its trials that
\* completed.  The error of a policy function ends the run at once, and the
\* result sequence is assigned only when all trials have completed.
RunSimulation(i) ==
    /\ Exists(i)
    /\ mc[i].cls = "utils"
    /\ LET n == mc[i].num_simulations
           d == DrawsPerTrial(auction_parameters)
           failed == FirstFailure(np_random, 1, n, auction_parameters)
           started == IF failed = 0 THEN n ELSE failed
           results == [t \in 1..n |->
                          TrialResult(AfterDraws(np_random, (t - 1) * d),
                                      auction_parameters)]
           populations == [t \in 1..started |->
                              Sample(auction_parameters.num_senders,
                                     AfterDraws(np_random, (t - 1) * d))]
       IN  /\ mc' = IF failed = 0
                    THEN [mc EXCEPT
                            ![i].results = results,
                            ![i].populations = populations,
                            ![i].last_op = "run",
                            ![i].runs = IF mc[i].runs < 2 THEN mc[i].runs + 1 ELSE 2,
                            ![i].trials_done = n]
                    ELSE [mc EXCEPT
                            ![i].populations = populations,
                            ![i].last_op = "PolicyError",
                            ![i].runs = IF mc[i].runs < 2 THEN mc[i].runs + 1 ELSE 2,
                            ![i].trials_done = failed - 1]
           /\ np_random' = AfterDraws(np_random, started * d)
    /\ UNCHANGED <<auction_parameters, sampled, auctionVars>>

RECURSIVE SumSquares(_)
SumSquares(q) == IF q = <<>> THEN 0 ELSE (Head(q) * Head(q)) + SumSquares(Tail(q))

\* np.mean(results), as the fraction num / den
np_mean(results) == [num |-> SumSeq(results), den |-> Len(results)]

\* np.std(results) with numpy's ddof=0, by its square: the mean of the
\* squared deviations from the mean, as the fraction num / den
np_std_squared(results) ==
    [num |-> (Len(results) * SumSquares(results)) - (SumSeq(results) * SumSeq(results)),
     den |-> Len(results) * Len(results)]

\* get_statistics: results = self.run_simulation(), then the mean and the
\* standard deviation of what that call returned; recorded is the result
\* sequence the instance held when get_statistics was called
GetStatistics(i) ==
    /\ Exists(i)
    /\ mc[i].cls = "utils"
    /\ LET n == mc[i].num_simulations
           d == DrawsPerTrial(auction_parameters)
           failed == FirstFailure(np_random, 1, n, auction_parameters)
           started == IF failed = 0 THEN n ELSE failed
           results == [t \in 1..n |->
                          TrialResult(AfterDraws(np_random, (t - 1) * d),
                                      auction_parameters)]
           populations == [t \in 1..started |->
                              Sample(auction_parameters.num_senders,
                                     AfterDraws(np_random, (t - 1) * d))]
       IN  /\ mc' = IF failed = 0
                    THEN [mc EXCEPT
                            ![i].results = results,
                            ![i].populations = populations,
                            ![i].last_op = "stats",
                            ![i].runs = IF mc[i].runs < 2 THEN mc[i].runs + 1 ELSE 2,
                            ![i].trials_done = n,
                            ![i].recorded = mc[i].results,
                            ![i].statistics = <<np_mean(results), np_std_squared(results)>>]
                    ELSE [mc EXCEPT
                            ![i].populations = populations,
                            ![i].last_op = "PolicyError",
                            ![i].runs = IF mc[i].runs < 2 THEN mc[i].runs + 1 ELSE 2,
                            ![i].trials_done = failed - 1,
                            ![i].recorded = mc[i].results]
           /\ np_random' = AfterDraws(np_random, started * d)
    /\ UNCHANGED <<auction_parameters, sampled, auctionVars>>

\* reset that keeps the recorded results
ResetResults_kept(old) == old

\* the new value of _results in reset
ResetResults(old) == <<>>

\* the state of the random stream after reset
ResetStream(seed, x) == IF seed # NoSeed THEN SeedRandom(seed) ELSE x

\* reset
Reset(i) ==
    /\ Exists(i)
    /\ mc[i].cls = "utils"
    /\ mc' = [mc EXCEPT ![i].results = ResetResults(mc[i].results),
                        ![i].last_op = "reset",
                        ![i].runs = 0]
    /\ np_random' = ResetStream(mc[i].seed, np_random)
    /\ UNCHANGED <<auction_parameters, sampled, auctionVars>>

\* ------------------------------------------------------------------------
\* Specifications
\* ------------------------------------------------------------------------
AuctionParameters ==
    {[num_senders |-> n, base_payment |-> 3, audit_rate |-> 1,
      position_effects |-> [id \in 1..n |-> 2],
      custom_audit |-> "none"] : n \in 1..MaxSenders}

\* the configurations whose auction has the dividing audit factory
FailingParameters ==
    {[p EXCEPT !.custom_audit = "divides"] : p \in AuctionParameters}

\* no MonteCarloAuction has been constructed
MCStart ==
    /\ np_random \in 0..15
    /\ auction_parameters \in AuctionParameters
    /\ mc = [i \in Instances |-> NoInstance]
    /\ sampled = NoSample

\* a single auction, run by its caller
Init ==
    /\ AuctionInit
    /\ np_random = 0
    /\ auction_parameters = CHOOSE p \in AuctionParameters : p.num_senders = 1
    /\ mc = [i \in Instances |-> NoInstance]
    /\ sampled = NoSample

Next ==
    \/ CallAudit
    \/ CallReports
    \/ CallAllocate
    \/ CallPayments
    \/ CalcUtilities
    \/ SetPayment

Spec == Init /\ [][Next]_vars

\* an auction over the empty population that its caller never runs
AuctionUnused ==
    /\ sender_message_types = <<>>
    /\ position_effects = EmptyDict
    /\ allocate_position_func = [kind |-> "table", table |-> EmptyDict]
    /\ calculate_payments_func = [kind |-> "table", table |-> EmptyDict]
    /\ set_collateral_audit_func = [kind |-> "rate", rate |-> 0]
    /\ sender_reports_func = [kind |-> "truthful"]
    /\ expected_liability_oracle = EmptyDict
    /\ sender_reports = EmptyDict
    /\ sender_allocations = EmptyDict
    /\ sender_payments = EmptyDict
    /\ expected_sender_utilities = EmptyDict
    /\ pc = 0
    /\ run_no = 0
    /\ calls = <<>>
    /\ stamp = [oracle |-> 0, reports |-> 0, allocations |-> 0,
                payments |-> 0, utilities |-> 0]
    /\ first_run = [done |-> FALSE,
                    derived |-> [expected_liability_oracle |-> EmptyDict,
                                 sender_reports |-> EmptyDict,
                                 sender_allocations |-> EmptyDict,
                                 sender_payments |-> EmptyDict,
                                 expected_sender_utilities |-> EmptyDict]]
    /\ mutations = 0

MCSpecInit == AuctionUnused /\ MCStart

\* one variable holding a MonteCarloAuction of either module
MCNext ==
    \/ \E n \in SimCounts, d \in DistChoices, seed \in Seeds : MCInit("A", n, d, seed)
    \/ \E n \in SimCounts, d \in DistChoices, seed \in Seeds : FnMCInit("A", n, d, seed)
    \/ SampleSendersAndRun("A")
    \/ RunSimulation("A")
    \/ Reset("A")

MCSpec == MCSpecInit /\ [][MCNext]_vars

\* the code that builds populations: the samplers, called directly, and the
\* constructor of auction_functions.py
SamplerNext ==
    \/ \E fn \in Samplers, k \in MessageCounts : CallSampler(fn, k)
    \/ \E n \in 1..MaxSims, seed \in Seeds : FnMCInit("A", n, Dist_1, seed)

SamplerSpec == MCSpecInit /\ [][SamplerNext]_vars

\* one MonteCarloAuction of auction_utils.py, constructed with valid
\* arguments, whose caller runs it and asks for its statistics
StatNext ==
    \/ \E n \in 1..MaxSims, seed \in Seeds : MCInit("A", n, Dist_1, seed)
    \/ RunSimulation("A")
    \/ GetStatistics("A")
    \/ Reset("A")

StatSpec == MCSpecInit /\ [][StatNext]_vars

\* one MonteCarloAuction of auction_utils.py, constructed with valid
\* arguments, over an auction whose audit factory may raise
TrialInit ==
    /\ AuctionUnused
    /\ np_random \in 0..15
    /\ auction_parameters \in AuctionParameters \cup FailingParameters
    /\ mc = [i \in Instances |-> NoInstance]
    /\ sampled = NoSample

TrialNext ==
    \/ \E n \in 1..MaxSims, seed \in Seeds : MCInit("A", n, Dist_1, seed)
    \/ RunSimulation("A")
    \/ GetStatistics("A")
    \/ Reset("A")

TrialSpec == TrialInit /\ [][TrialNext]_vars

\* two variables holding MonteCarloAuction instances of auction_utils.py,
\* constructed with valid arguments
TwinNext ==
    \/ \E i \in Instances, n \in 1..MaxSims, seed \in Seeds : MCInit(i, n, Dist_1, seed)
    \/ \E i \in Instances : RunSimulation(i)
    \/ \E i \in Instances : Reset(i)

TwinSpec == MCSpecInit /\ [][TwinNext]_vars

\* ------------------------------------------------------------------------
\* Properties of CollateralPositionAuction
\* ------------------------------------------------------------------------
AllCalls == <<"audit", "reports", "alloc", "pay">>

\* a run has completed and no caller has assigned a derived attribute since
Settled == pc = 0 /\ run_no >= 1 /\ stamp.payments # CallerStamp

Allocation(s) == IF s \in DOMAIN sender_allocations THEN sender_allocations[s] ELSE 0
Payment(s) == IF s \in DOMAIN sender_payments THEN sender_payments[s] ELSE 0
Effect(s) ==
    IF sender_message_types[s].message_id \in DOMAIN position_effects
    THEN position_effects[sender_message_types[s].message_id]
    ELSE 0
Value(s) == sender_message_types[s].sender_value

\* C1: run_auction calls the audit-oracle factory, the reporting function, the
\* allocation function and the payment function once each, in this order, and
\* then derives the utilities; when the allocation function and when the
\* payment function is invoked, expected_liability_oracle and sender_reports
\* were assigned by this same run.
C1_RunOrder ==
    /\ (Stage = "alloc" => /\ run_no >= 1
                           /\ calls = <<"audit", "reports">>
                           /\ stamp.oracle = run_no
                           /\ stamp.reports = run_no)
    /\ (Stage = "pay" => /\ run_no >= 1
                         /\ calls = <<"audit", "reports", "alloc">>
                         /\ stamp.oracle = run_no
                         /\ stamp.reports = run_no
                         /\ stamp.allocations = run_no)
    /\ (Stage = "utilities" => calls = AllCalls)
    /\ (pc = 0 /\ run_no >= 1 => calls = AllCalls /\ stamp.utilities = run_no)

C1_Witness ==
    /\ run_no = 2
    /\ Stage = "pay"
    /\ stamp.oracle = 2
    /\ stamp.reports = 2
    /\ Population # {}

\* C2: after a run the expected utility of every sender s of the population is
\* allocation(s) * position_effects.get(s.message_id, 0) * s.sender_value
\* - payment(s) - expected_liability_oracle(s), where allocation and payment
\* are the values the policy functions returned, unmodified.
C2_UtilityFormula ==
    Settled =>
        /\ Population \subseteq DOMAIN expected_sender_utilities
        /\ \A s \in Population :
              expected_sender_utilities[s] =
                  (Allocation(s) * Effect(s) * Value(s)) - Payment(s)
                      - expected_liability_oracle[s]
        /\ (allocate_position_func.kind = "table"
                => sender_allocations = allocate_position_func.table)
        /\ (calculate_payments_func.kind = "table"
                => sender_payments = calculate_payments_func.table)

\* allocation 1, effect 2, value 10, payment 3, liability 1 gives 16
C2_Witness ==
    /\ Settled
    /\ \E s \in Population :
        /\ s \in DOMAIN sender_allocations /\ sender_allocations[s] = 1
        /\ Effect(s) = 2
        /\ Value(s) = 10
        /\ s \in DOMAIN sender_payments /\ sender_payments[s] = 3
        /\ expected_liability_oracle[s] = 1
        /\ expected_sender_utilities[s] = 16

\* C3: a sender of the population that the allocation mapping lacks has utility
\* -payment(s) - liability(s), and a sender that the payment mapping lacks has
\* payment 0 in the formula; the run completes in both cases.
C3_MissingKeyDefault ==
    Settled =>
        \A s \in Population :
            /\ s \notin DOMAIN sender_allocations
                  => expected_sender_utilities[s] =
                        0 - Payment(s) - expected_liability_oracle[s]
            /\ s \notin DOMAIN sender_payments
                  => expected_sender_utilities[s] =
                        (Allocation(s) * Effect(s) * Value(s))
                            - expected_liability_oracle[s]

C3_Witness ==
    /\ Settled
    /\ \E s, t \in Population :
        /\ s \notin DOMAIN sender_allocations
        /\ s \in DOMAIN sender_payments
        /\ Effect(s) = 2
        /\ expected_sender_utilities[s] = 0 - 3 - expected_liability_oracle[s]
        /\ t \notin DOMAIN sender_payments
        /\ t \in DOMAIN sender_allocations
        /\ Effect(t) = 2
        /\ expected_sender_utilities[t] > 0

\* C4: reading sender_expected_utilities yields the utility formula applied to
\* the current sender_allocations, sender_payments and
\* expected_liability_oracle, also after a caller changed a derived mapping.
C4_ViewRecomputed ==
    (pc = 0 /\ run_no >= 1) =>
        sender_expected_utilities = calculate_expected_sender_utilities(Self)

\* C5: after a run over an empty population, with policy functions that return
\* entries for senders of the population only, sender_reports,
\* sender_allocations, sender_payments and expected_sender_utilities are empty
\* and so is the view sender_expected_utilities.
C5_EmptyPopulation ==
    (/\ Settled
     /\ Population = {}
     /\ Stranger \notin DOMAIN sender_allocations
     /\ Stranger \notin DOMAIN sender_payments) =>
        /\ sender_reports = EmptyDict
        /\ sender_allocations = EmptyDict
        /\ sender_payments = EmptyDict
        /\ expected_sender_utilities = EmptyDict
        /\ sender_expected_utilities = EmptyDict

C5_Witness ==
    /\ Settled
    /\ Population = {}
    /\ run_no = 2
    /\ Stranger \notin DOMAIN sender_allocations
    /\ Stranger \notin DOMAIN sender_payments
    /\ expected_sender_utilities = EmptyDict

\* every policy function is a function of the auction instance it is given
PurePolicies == allocate_position_func.kind # "call_count"

\* every policy function reads only the population, position_effects and the
\* attributes that earlier statements of the same run have assigned
StageLocalPolicies ==
    /\ allocate_position_func.kind = "table"
    /\ set_collateral_audit_func.kind = "rate"

FreshDerivedState ==
    Settled =>
        /\ stamp.oracle = run_no
        /\ stamp.reports = run_no
        /\ stamp.allocations = run_no
        /\ stamp.payments = run_no
        /\ stamp.utilities = run_no
        /\ sender_reports = ApplyReports(sender_reports_func, Self)
        /\ sender_allocations = ApplyAllocation(allocate_position_func, Self, run_no)
        /\ sender_payments = ApplyPayments(calculate_payments_func, Self)

\* C6 as stated: every completed run overwrites all derived state, and with
\* pure policy functions a second run leaves the derived state of the first.
C6_IdempotentIfPure ==
    /\ FreshDerivedState
    /\ (Settled /\ run_no >= 2 /\ mutations = 0 /\ PurePolicies)
            => Derived = first_run.derived

\* C6 (amended): every completed run overwrites all derived state, and with
\* policy functions whose results depend only on the population,
\* position_effects and the attributes assigned by earlier statements of the
\* same run, a second run leaves the derived state of the first.
C6_IdempotentIfStageLocal ==
    /\ FreshDerivedState
    /\ (Settled /\ run_no >= 2 /\ StageLocalPolicies) => Derived = first_run.derived

C6_Witness ==
    /\ Settled
    /\ run_no = 2
    /\ StageLocalPolicies
    /\ calculate_payments_func.kind = "per_allocation"
    /\ Derived = first_run.derived
    /\ \E s \in Population : expected_sender_utilities[s] # 0

\* C17: a key that the allocation or the payment function returns and that
\* is no sender of the population is ignored: the run completes, the keys of
\* expected_sender_utilities are exactly the senders of the population, and
\* every sender's utility is what its own allocation and payment give.
C17_ExtraKeysIgnored ==
    Settled =>
        /\ DOMAIN expected_sender_utilities = Population
        /\ \A s \in Population :
              expected_sender_utilities[s] =
                  (Allocation(s) * Effect(s) * Value(s)) - Payment(s)
                      - expected_liability_oracle[s]

C17_Witness ==
    /\ Settled
    /\ Stranger \in DOMAIN sender_allocations
    /\ Stranger \in DOMAIN sender_payments
    /\ Population # {}
    /\ Population \subseteq DOMAIN sender_allocations
    /\ DOMAIN expected_sender_utilities = Population
    /\ \A s \in Population : expected_sender_utilities[s] > 0

\* ------------------------------------------------------------------------
\* Properties of MonteCarloAuction
\* ------------------------------------------------------------------------
Utils(i) == Exists(i) /\ mc[i].cls = "utils"

C8_NumSimulationsValidated ==
    \A i \in Instances :
        /\ (mc[i].status # "absent" /\ mc[i].num_simulations < 1
                => mc[i].status = "ValueError")
        /\ (Exists(i) => mc[i].num_simulations >= 1)

\* C9: constructing a MonteCarloAuction fails whenever the values of
\* sender_type_distribution sum to a number that differs from 1 by more than
\* 1e-9, and succeeds (for num_simulations >= 1) when the difference is
\* within 1e-9; stated for the constructor of auction_utils.py, the one that
\* checks the distribution.
C9_DistributionValidated ==
    \A i \in Instances :
        (mc[i].status # "absent" /\ mc[i].cls = "utils") =>
            /\ (Abs(SumSeq(mc[i].sender_type_distribution) - One) > 1
                    => mc[i].status = "ValueError")
            /\ ((Abs(SumSeq(mc[i].sender_type_distribution) - One) <= 1
                    /\ mc[i].num_simulations >= 1)
                    => mc[i].status = "ok")

SeededPopulations(i) ==
    [t \in 1..mc[i].num_simulations |->
        Sample(auction_parameters.num_senders,
               AfterDraws(SeedRandom(mc[i].seed),
                          (t - 1) * DrawsPerTrial(auction_parameters)))]

SeededResults(i) ==
    [t \in 1..mc[i].num_simulations |->
        TrialResult(AfterDraws(SeedRandom(mc[i].seed),
                               (t - 1) * DrawsPerTrial(auction_parameters)),
                    auction_parameters)]

FreshAuctionResult(population) ==
    SumSeq([s \in 1..Len(population) |->
               (1 * auction_parameters.position_effects[population[s].message_id]
                  * population[s].sender_value)
               - auction_parameters.base_payment
               - ((population[s].sender_value * auction_parameters.audit_rate) \div 10)])

\* C12: a Monte Carlo run of num_simulations trials samples one population
\* per trial, each from its own draws of the random stream, and records for
\* every trial the result of a new auction run over that trial's population.
C12_FreshTrialPerSimulation ==
    \A i \in Instances :
        (Utils(i) /\ mc[i].last_op \in {"run", "NameError"}) =>
            /\ Len(mc[i].populations) = mc[i].num_simulations
            /\ Len(mc[i].results) = mc[i].num_simulations
            /\ \E x \in 0..15 :
                  \A t \in 1..mc[i].num_simulations :
                      mc[i].populations[t] =
                          Sample(auction_parameters.num_senders,
                                 AfterDraws(x, (t - 1) * DrawsPerTrial(auction_parameters)))
            /\ \A t \in 1..mc[i].num_simulations :
                  mc[i].results[t] = FreshAuctionResult(mc[i].populations[t])

IdsFromOne(population) ==
    \A k \in 1..Len(population) : population[k].message_id = k

\* C14: for every num_messages >= 1 a sampler returns a sequence of exactly
\* num_messages SenderMessage objects with the message_id values
\* 1..num_messages in order, and every population the program builds for an
\* auction carries these ids.
C14_SamplerLengthAndIds ==
    /\ (sampled.status # "none" /\ sampled.num_messages >= 1)
            => /\ sampled.status = "returned list"
               /\ Len(sampled.messages) = sampled.num_messages
               /\ IdsFromOne(sampled.messages)
    /\ \A i \in Instances :
            Exists(i) => /\ IdsFromOne(mc[i].senders)
                         /\ \A t \in 1..Len(mc[i].populations) :
                               IdsFromOne(mc[i].populations[t])

\* C15: a sampler called with num_messages < 1 fails with an error; it never
\* returns an empty population.
C15_SamplerRejectsEmpty ==
    (sampled.status # "none" /\ sampled.num_messages < 1)
        => sampled.status \notin {"returned list", "returned None"}

\* ------------------------------------------------------------------------
\* Properties of a Monte Carlo run whose policy function fails
\* ------------------------------------------------------------------------
\* the population makes the audit factory of the configured auction fail
PolicyFailsOn(population) ==
    /\ auction_parameters.custom_audit = "divides"
    /\ \E s \in 1..Len(population) : population[s].sender_value = 10

\* the trials of a run of instance i, started now, whose population makes
\* the policy function fail
FailingTrials(i) ==
    {t \in 1..mc[i].num_simulations :
        PolicyFailsOn(Sample(auction_parameters.num_senders,
                             AfterDraws(np_random,
                                        (t - 1) * DrawsPerTrial(auction_parameters))))}

FirstFailingTrial(i) ==
    CHOOSE t \in FailingTrials(i) : \A u \in FailingTrials(i) : t <= u

====
